---- MODULE Spec2Model ----
(***************************************************************************)
(* Model of the image resizer (final variant of the program: the one with  *)
(* DPI support, the mutex-guarded message queue and the deferred progress  *)
(* increment).                                                             *)
(*                                                                         *)
(* Two specifications live here:                                           *)
(*   SolverSpec  calculateMaxResolution stepped one loop iteration at a    *)
(*               time, followed by resizeImage's no-upscale guard, on       *)
(*               inputs drawn from bounded sets;                           *)
(*   Spec        main / processPath / processFile / safePrint /            *)
(*               flushMessages with one goroutine per file.                *)
(***************************************************************************)
EXTENDS Integers, Sequences, FiniteSets, TLC

VARIABLES
    solver,         \* calculateMaxResolution: inputs, loop position, candidate, result
    params,         \* the command line: args and flags (fixed for a run)
    main,           \* the main goroutine: position in main/processPath, files, loop index
    wk,             \* the goroutines of the current processPath call, one per file
    say,            \* per goroutine: the safePrint calls it is about to make, in order
    held,           \* per goroutine: it is inside the messageMutex critical section
    messageMutex,   \* holder of messageMutex, or Free
    messageQueue,   \* the global message queue
    lockOrder,      \* history: the messages of the safePrint calls since the last flush, in the order they took the lock
    flushed,        \* lines printed by the flushMessages call of the current processPath
    wg,             \* counter of the sync.WaitGroup of the current processPath call
    bar,            \* progress bar: total and current
    fs,             \* file system: the output directory and the output files in it
    crashed         \* a goroutine panicked: the process is gone

vars == <<solver, params, main, wk, say, held, messageMutex, messageQueue,
          lockOrder, flushed, wg, bar, fs, crashed>>

batchVars == <<params, main, wk, say, held, messageMutex, messageQueue,
               lockOrder, flushed, wg, bar, fs, crashed>>

----------------------------------------------------------------------------
(* Bounds of the solver's input domain.                                    *)
MaxDim == 9
MaxMem == 64
MaxAlign == 4
MaxDpi == 3

----------------------------------------------------------------------------
(* Pixel formats and bytes per pixel.                                      *)
PixelFormats == {"Format8bppIndexed", "Format24bppRgb", "Format32bppArgb"}

getBytesPerPixel(pixelFormat) ==
    CASE pixelFormat = "Format8bppIndexed" -> 1
      [] pixelFormat \in {"Format24bppRgb", "Format32bppArgb"} -> 4

----------------------------------------------------------------------------
(* float64 arithmetic of the solver.  Every float expression of the code   *)
(* is followed by a floor or a truncation to int, so it is modelled by the *)
(* floor of the exact rational value, corrected on the inputs where        *)
(* IEEE-754 binary64 rounding makes the code's result differ from it.  The *)
(* correction tables list every such input with originalWidth,             *)
(* originalHeight <= 10, memoryLimit <= 80, alignment <= 6 and dpi <= 5,   *)
(* found by evaluating the code's expressions in binary64; on the images,  *)
(* limits and dpi values of Spec the exact value is the code's value.      *)
RECURSIVE IsqrtBetween(_, _, _)
IsqrtBetween(n, lo, hi) ==
    IF lo >= hi THEN lo
    ELSE LET mid == (lo + hi + 1) \div 2
         IN  IF mid * mid <= n THEN IsqrtBetween(n, mid, hi)
                               ELSE IsqrtBetween(n, lo, mid - 1)

\* floor(math.Sqrt(n)) for an integer n >= 0
FloorSqrt(n) == IsqrtBetween(n, 0, n)

\* inputs <<originalWidth, originalHeight, bytesPerPixel, memoryLimit>> on which
\* sqrt(memoryLimit / (bytesPerPixel * aspectRatio)) lands just below an integer
InitialEstimateRoundsBelow == { <<9, 7, 1, 63>> }

\* inputs <<originalWidth, originalHeight, newWidth>> on which
\* float64(newWidth) / aspectRatio lands just below an integer
QuotientRoundsBelow == { <<9, 7, 9>> }

\* int(math.Floor(math.Sqrt(float64(memoryLimit) / (float64(bytesPerPixel) * aspectRatio))))
InitialHeight(originalWidth, originalHeight, bytesPerPixel, memoryLimit) ==
    LET exact == FloorSqrt((memoryLimit * originalHeight) \div (bytesPerPixel * originalWidth))
    IN  IF <<originalWidth, originalHeight, bytesPerPixel, memoryLimit>> \in InitialEstimateRoundsBelow
        THEN exact - 1 ELSE exact

\* int(math.Floor(aspectRatio * float64(height)))
WidthOf(originalWidth, originalHeight, height) ==
    (originalWidth * height) \div originalHeight

\* (width*bytesPerPixel + alignment - 1) / alignment * alignment
StrideOf(width, bytesPerPixel, alignment) ==
    ((width * bytesPerPixel + alignment - 1) \div alignment) * alignment

\* int64(stride) * int64(height)
TotalMemory(width, height, bytesPerPixel, alignment) ==
    StrideOf(width, bytesPerPixel, alignment) * height

\* a next estimate that leaves the stride out of the divisor
NextHeightWithoutStride(memoryLimit, stride, bytesPerPixel) ==
    FloorSqrt(memoryLimit \div bytesPerPixel)

\* int(math.Floor(math.Sqrt(float64(memoryLimit) / (float64(stride) * float64(bytesPerPixel)))))
NextHeight(memoryLimit, stride, bytesPerPixel) ==
    FloorSqrt(memoryLimit \div (stride * bytesPerPixel))

\* a snap that rounds up to the next multiple of dpi instead of down
SnapWidthUp(width, dpi) ==
    IF width % dpi = 0 THEN width ELSE width + (dpi - (width % dpi))

\* newWidth := width - (width % dpi)      (dpi /= 0; dpi = 0 panics)
SnapWidth(width, dpi) == width - (width % dpi)

\* newHeight := int(float64(newWidth) / aspectRatio)
SnapHeight(originalWidth, originalHeight, newWidth) ==
    LET exact == (newWidth * originalHeight) \div originalWidth
    IN  IF <<originalWidth, originalHeight, newWidth>> \in QuotientRoundsBelow
        THEN exact - 1 ELSE exact

\* the candidate of one loop iteration is accepted
Fits(originalWidth, originalHeight, bytesPerPixel, alignment, memoryLimit, height) ==
    TotalMemory(WidthOf(originalWidth, originalHeight, height), height,
                bytesPerPixel, alignment) <= memoryLimit

\* the height at which the loop, entered with candidate height, accepts
RECURSIVE AcceptedHeight(_, _, _, _, _, _)
AcceptedHeight(originalWidth, originalHeight, bytesPerPixel, alignment, memoryLimit, height) ==
    IF Fits(originalWidth, originalHeight, bytesPerPixel, alignment, memoryLimit, height)
    THEN height
    ELSE AcceptedHeight(originalWidth, originalHeight, bytesPerPixel, alignment, memoryLimit,
             NextHeight(memoryLimit,
                        StrideOf(WidthOf(originalWidth, originalHeight, height),
                                 bytesPerPixel, alignment),
                        bytesPerPixel))

\* calculateMaxResolution for dpi /= 0: <<newWidth, newHeight>>
calculateMaxResolution(originalWidth, originalHeight, pixelFormat, alignment, memoryLimit, dpi) ==
    LET bytesPerPixel == getBytesPerPixel(pixelFormat)
        height == AcceptedHeight(originalWidth, originalHeight, bytesPerPixel, alignment,
                      memoryLimit,
                      InitialHeight(originalWidth, originalHeight, bytesPerPixel, memoryLimit))
        width == WidthOf(originalWidth, originalHeight, height)
        newWidth == SnapWidth(width, dpi)
    IN  <<newWidth, SnapHeight(originalWidth, originalHeight, newWidth)>>

----------------------------------------------------------------------------
(* The files the program is run on.  A path is named by its text; Stem,    *)
(* Ext and the directory structure give what filepath.Base, filepath.Ext   *)
(* and filepath.WalkDir see of it.                                         *)
Files == {"d/a.jpg", "d/n.txt", "d/s/a.jpg", "e/b.png", "e/c.PNG", "u.jpeg", "n.txt"}
Roots == {"d", "e", "u.jpeg", "n.txt", "missing"}

\* os.Stat(path) succeeds
PathExists(path) == path # "missing"
\* info.IsDir()
IsDir(path) == path \in {"d", "d/s", "e"}

\* filepath.Ext
Ext(path) ==
    CASE path \in {"d/a.jpg", "d/s/a.jpg"} -> ".jpg"
      [] path = "e/b.png" -> ".png"
      [] path = "e/c.PNG" -> ".PNG"
      [] path = "u.jpeg" -> ".jpeg"
      [] path \in {"d/n.txt", "n.txt"} -> ".txt"
      [] OTHER -> ""

\* strings.TrimSuffix(filepath.Base(path), filepath.Ext(path))
Stem(path) ==
    CASE path \in {"d/a.jpg", "d/s/a.jpg"} -> "a"
      [] path = "e/b.png" -> "b"
      [] path = "e/c.PNG" -> "c"
      [] path = "u.jpeg" -> "u"
      [] path \in {"d/n.txt", "n.txt"} -> "n"
      [] OTHER -> path

\* strings.ToLower on an extension
ToLower(ext) == IF ext = ".PNG" THEN ".png" ELSE ext

isValidImageExtension(ext) == ext = ".jpg" \/ ext = ".jpeg" \/ ext = ".png"

getPixelFormat(fileExt) ==
    CASE ToLower(fileExt) = ".png" -> "Format32bppArgb"
      [] ToLower(fileExt) \in {".jpg", ".jpeg"} -> "Format24bppRgb"

\* what os.Open, image.Decode and the EXIF reader find in each file: whether it
\* opens, whether it decodes and to what, and the XResolution / YResolution
\* rationals (hasExif FALSE: exif.Decode or a tag lookup fails)
Content(path) ==
    CASE path = "d/a.jpg" ->
            [opens |-> TRUE, decodes |-> TRUE, format |-> "jpeg", width |-> 3, height |-> 3,
             hasExif |-> TRUE, xNum |-> 5, xDen |-> 2, yNum |-> 7, yDen |-> 2]
      [] path = "d/s/a.jpg" ->
            [opens |-> TRUE, decodes |-> TRUE, format |-> "jpeg", width |-> 3, height |-> 2,
             hasExif |-> TRUE, xNum |-> 1, xDen |-> 2, yNum |-> 1, yDen |-> 2]
      [] path = "e/b.png" ->
            [opens |-> TRUE, decodes |-> TRUE, format |-> "png", width |-> 2, height |-> 2,
             hasExif |-> FALSE, xNum |-> 0, xDen |-> 1, yNum |-> 0, yDen |-> 1]
      [] path = "e/c.PNG" ->
            [opens |-> TRUE, decodes |-> FALSE, format |-> "", width |-> 0, height |-> 0,
             hasExif |-> FALSE, xNum |-> 0, xDen |-> 1, yNum |-> 0, yDen |-> 1]
      [] path = "u.jpeg" ->
            [opens |-> FALSE, decodes |-> FALSE, format |-> "", width |-> 0, height |-> 0,
             hasExif |-> FALSE, xNum |-> 0, xDen |-> 1, yNum |-> 0, yDen |-> 1]
      [] OTHER ->
            [opens |-> TRUE, decodes |-> FALSE, format |-> "", width |-> 0, height |-> 0,
             hasExif |-> FALSE, xNum |-> 0, xDen |-> 1, yNum |-> 0, yDen |-> 1]

\* filepath.WalkDir(dir, ...): the entries in lexical order, each with the
\* subdirectory of dir it lies in ("" for dir itself and its direct entries)
WalkOrder(dir) ==
    CASE dir = "d" ->
         << [path |-> "d", isDir |-> TRUE, under |-> ""],
            [path |-> "d/a.jpg", isDir |-> FALSE, under |-> ""],
            [path |-> "d/n.txt", isDir |-> FALSE, under |-> ""],
            [path |-> "d/s", isDir |-> TRUE, under |-> ""],
            [path |-> "d/s/a.jpg", isDir |-> FALSE, under |-> "d/s"] >>
      [] dir = "e" ->
         << [path |-> "e", isDir |-> TRUE, under |-> ""],
            [path |-> "e/b.png", isDir |-> FALSE, under |-> ""],
            [path |-> "e/c.PNG", isDir |-> FALSE, under |-> ""] >>
      [] OTHER -> << >>

RECURSIVE PathsOf(_)
PathsOf(entries) ==
    IF entries = << >> THEN << >> ELSE <<Head(entries).path>> \o PathsOf(Tail(entries))

\* collectFiles: the callback appends every non-directory entry with a valid
\* extension; it returns SkipDir for a directory other than dir when not recursive
collectFiles(dir, recursive) ==
    LET walk == WalkOrder(dir)
        skipped == { walk[i].path : i \in { j \in 1..Len(walk) :
                        ~recursive /\ walk[j].isDir /\ walk[j].path # dir } }
        appends(e) == /\ e.under \notin skipped
                      /\ ~e.isDir
                      /\ isValidImageExtension(ToLower(Ext(e.path)))
    IN  PathsOf(SelectSeq(walk, appends))

\* outputFileName under outputDir: stem + "-resized" + ext
OutputPath(filePath) == <<Stem(filePath), "-resized", Ext(filePath)>>

\* extractDPI: <<dpi, err = nil>>.  x := float64(xNum) / float64(xDen); both
\* branches of the x == y test return int(x), nil
extractDPI(filePath) ==
    LET c == Content(filePath)
    IN  IF ~c.opens \/ ~c.hasExif THEN <<0, FALSE>>
        ELSE <<c.xNum \div c.xDen, TRUE>>

DefaultDPI == 72

----------------------------------------------------------------------------
(* Inputs of a run.                                                        *)
MaxArgs == 2
MemoryLimits == {20, 200}
OverrideDPIs == {0, 2}

RECURSIVE SeqsUpTo(_, _)
SeqsUpTo(S, n) ==
    IF n = 0 THEN { << >> }
    ELSE LET shorter == SeqsUpTo(S, n - 1)
         IN  shorter \cup { Append(s, x) : s \in { t \in shorter : Len(t) = n - 1 }, x \in S }

ArgLists == SeqsUpTo(Roots, MaxArgs)

Free == "free"

\* exit status of a process that has not exited
StillRunning == -1
Procs == Files \cup {"main"}

NotSpawned == [pc |-> "none", dpi |-> 0, ops |-> {}]

Msg(p, text) == [by |-> p, text |-> text]

\* the state of everything but the solver when no run is modelled
BatchIdle ==
    /\ params = [args |-> << >>, memoryLimit |-> 0, dryRun |-> FALSE,
                 recursive |-> FALSE, overrideDPI |-> 0, explorer |-> FALSE]
    /\ main = [pc |-> "exited", argIdx |-> 0, files |-> << >>, spawnIdx |-> 0, before |-> {},
               exitCode |-> StillRunning]
    /\ wk = [f \in Files |-> NotSpawned]
    /\ say = [p \in Procs |-> << >>]
    /\ held = [p \in Procs |-> FALSE]
    /\ messageMutex = Free
    /\ messageQueue = << >>
    /\ lockOrder = << >>
    /\ flushed = << >>
    /\ wg = 0
    /\ bar = [total |-> 0, current |-> 0]
    /\ fs = [dirExists |-> FALSE, creatable |-> FALSE, outputs |-> {}]
    /\ crashed = FALSE

----------------------------------------------------------------------------
(* SolverSpec: the solver as a state machine.                              *)
SolverIdle == [pc |-> "idle"]

SolverInputs ==
    [originalWidth : 1..MaxDim, originalHeight : 1..MaxDim,
     pixelFormat : PixelFormats, alignment : 1..MaxAlign,
     memoryLimit : 1..MaxMem, dpi : 0..MaxDpi]

SolverInit ==
    /\ BatchIdle
    /\ \E in \in SolverInputs :
        solver = [pc |-> "loop", in |-> in, iterations |-> 0,
                  height |-> InitialHeight(in.originalWidth, in.originalHeight,
                                           getBytesPerPixel(in.pixelFormat), in.memoryLimit),
                  newWidth |-> 0, newHeight |-> 0, resized |-> FALSE]

SolverWidth == WidthOf(solver.in.originalWidth, solver.in.originalHeight, solver.height)
SolverStride == StrideOf(SolverWidth, getBytesPerPixel(solver.in.pixelFormat), solver.in.alignment)
SolverFits ==
    Fits(solver.in.originalWidth, solver.in.originalHeight,
         getBytesPerPixel(solver.in.pixelFormat), solver.in.alignment,
         solver.in.memoryLimit, solver.height)

\* totalMemory > memoryLimit: shrink the estimate and iterate
SolverReject ==
    /\ UNCHANGED batchVars
    /\ solver.pc = "loop"
    /\ ~SolverFits
    /\ solver' = [solver EXCEPT !.iterations = @ + 1,
                      !.height = NextHeight(solver.in.memoryLimit, SolverStride,
                                            getBytesPerPixel(solver.in.pixelFormat))]

\* totalMemory <= memoryLimit: snap to the DPI and return
SolverAccept ==
    /\ UNCHANGED batchVars
    /\ solver.pc = "loop"
    /\ SolverFits
    /\ solver.in.dpi # 0
    /\ LET newWidth == SnapWidth(SolverWidth, solver.in.dpi)
       IN  solver' = [solver EXCEPT !.pc = "returned", !.newWidth = newWidth,
                          !.newHeight = SnapHeight(solver.in.originalWidth,
                                                   solver.in.originalHeight, newWidth)]

\* totalMemory <= memoryLimit with dpi = 0: width % dpi is an integer division by zero
SolverPanic ==
    /\ UNCHANGED batchVars
    /\ solver.pc = "loop"
    /\ SolverFits
    /\ solver.in.dpi = 0
    /\ solver' = [solver EXCEPT !.pc = "panic"]

\* resizeImage's guard on the returned dimensions
ResizeGuard ==
    /\ UNCHANGED batchVars
    /\ solver.pc = "returned"
    /\ solver' = [solver EXCEPT !.pc = "guarded",
                      !.resized = (solver.newWidth < solver.in.originalWidth
                                   \/ solver.newHeight < solver.in.originalHeight)]

SolverNext == SolverReject \/ SolverAccept \/ SolverPanic \/ ResizeGuard

SolverSpec == SolverInit /\ [][SolverNext]_vars

----------------------------------------------------------------------------
(* Spec: one run of the program.                                           *)

\* the command lines of a run.  explorer: mousetrap.StartedByExplorer(); it is
\* read only when os.Args[1:] is empty, that is with no path and every flag
\* at its default (no flag is read on that path)
CommandLines ==
    { p \in [args : ArgLists, memoryLimit : MemoryLimits, dryRun : BOOLEAN,
             recursive : BOOLEAN, overrideDPI : OverrideDPIs, explorer : BOOLEAN] :
        p.explorer => ( /\ p.args = << >>
                        /\ ~p.dryRun
                        /\ ~p.recursive
                        /\ p.overrideDPI = 0
                        /\ \A m \in MemoryLimits : p.memoryLimit >= m ) }

Init ==
    /\ solver = SolverIdle
    /\ params \in CommandLines
    /\ main = [pc |-> "start", argIdx |-> 0, files |-> << >>, spawnIdx |-> 0, before |-> {},
               exitCode |-> StillRunning]
    /\ wk = [f \in Files |-> NotSpawned]
    /\ say = [p \in Procs |-> << >>]
    /\ held = [p \in Procs |-> FALSE]
    /\ messageMutex = Free
    /\ messageQueue = << >>
    /\ lockOrder = << >>
    /\ flushed = << >>
    /\ wg = 0
    /\ bar = [total |-> 0, current |-> 0]
    /\ fs \in [dirExists : {FALSE}, creatable : BOOLEAN, outputs : {{}}]
    /\ crashed = FALSE

\* a lock that excludes nobody
CanLockAlways(mutex) == TRUE

\* messageMutex.Lock() may proceed
CanLock(mutex) == mutex = Free

(* safePrint, first half: messageMutex.Lock()                              *)
SafePrintLock(p) ==
    /\ ~crashed
    /\ say[p] # << >>
    /\ ~held[p]
    /\ CanLock(messageMutex)
    /\ messageMutex' = p
    /\ held' = [held EXCEPT ![p] = TRUE]
    /\ lockOrder' = Append(lockOrder, Head(say[p]))
    /\ UNCHANGED <<solver, params, main, wk, say, messageQueue, flushed,
                   wg, bar, fs, crashed>>

\* messageQueue = append(messageQueue, message)
AppendMessage(queue, message) == Append(queue, message)

(* safePrint, second half: the append and the deferred Unlock              *)
SafePrintAppend(p) ==
    /\ ~crashed
    /\ say[p] # << >>
    /\ held[p]
    /\ messageQueue' = AppendMessage(messageQueue, Head(say[p]))
    /\ say' = [say EXCEPT ![p] = Tail(@)]
    /\ held' = [held EXCEPT ![p] = FALSE]
    /\ messageMutex' = Free
    /\ UNCHANGED <<solver, params, main, wk, lockOrder, flushed, wg, bar, fs, crashed>>

\* the goroutine p is between two statements, no safePrint call pending
Ready(p) == ~crashed /\ say[p] = << >> /\ ~held[p]

----------------------------------------------------------------------------
(* main and processPath                                                    *)

\* the top of main: started from Explorer without arguments, two safePrint
\* calls and the wait for Enter; otherwise app.Run
MainStart ==
    /\ Ready("main")
    /\ main.pc = "start"
    /\ IF Len(params.args) = 0 /\ params.explorer
       THEN /\ say' = [say EXCEPT !["main"] =
                          <<Msg("main", "CannotDoubleClick"), Msg("main", "PressEnter")>>]
            /\ main' = [main EXCEPT !.pc = "scanln"]
       ELSE /\ main' = [main EXCEPT !.pc = "action"]
            /\ UNCHANGED say
    /\ UNCHANGED <<solver, params, wk, held, messageMutex, messageQueue, lockOrder,
                   flushed, wg, bar, fs, crashed>>

\* fmt.Scanln(): on an error main returns, otherwise os.Exit(1)
Scanln ==
    /\ Ready("main")
    /\ main.pc = "scanln"
    /\ \E err \in BOOLEAN :
        main' = [main EXCEPT !.pc = "exited", !.exitCode = IF err THEN 0 ELSE 1]
    /\ UNCHANGED <<solver, params, wk, say, held, messageMutex, messageQueue,
                   lockOrder, flushed, wg, bar, fs, crashed>>

\* the cli Action: no positional argument is an error that main safePrints
\* after app.Run returns; otherwise the loop over the paths starts
MainAction ==
    /\ Ready("main")
    /\ main.pc = "action"
    /\ IF Len(params.args) = 0
       THEN /\ say' = [say EXCEPT !["main"] = <<Msg("main", "Error")>>]
            /\ main' = [main EXCEPT !.pc = "return"]
       ELSE /\ main' = [main EXCEPT !.pc = "stat", !.argIdx = 1]
            /\ UNCHANGED say
    /\ UNCHANGED <<solver, params, wk, held, messageMutex, messageQueue, lockOrder,
                   flushed, wg, bar, fs, crashed>>

\* processPath up to the "Processing %d files" message: os.Stat of the path,
\* collectFiles for a directory, the path itself for a file.  The locals of
\* the previous call (its goroutines, bar and WaitGroup) are gone; before
\* remembers the output files present when the call starts.
StatPath ==
    /\ Ready("main")
    /\ main.pc = "stat"
    /\ LET path == params.args[main.argIdx]
       IN  IF ~PathExists(path)
           THEN /\ say' = [say EXCEPT !["main"] = <<Msg("main", "AccessError")>>]
                /\ main' = [main EXCEPT !.pc = "nextpath", !.before = fs.outputs,
                               !.files = << >>]
           ELSE /\ say' = [say EXCEPT !["main"] = <<Msg("main", "ProcessingFiles")>>]
                /\ main' = [main EXCEPT !.pc = "barstart", !.before = fs.outputs,
                               !.files = IF IsDir(path)
                                         THEN collectFiles(path, params.recursive)
                                         ELSE <<path>>]
    /\ wk' = [f \in Files |-> NotSpawned]
    /\ flushed' = << >>
    /\ bar' = [total |-> 0, current |-> 0]
    /\ wg' = 0
    /\ UNCHANGED <<solver, params, held, messageMutex, messageQueue, lockOrder,
                   fs, crashed>>

\* bar := pb.StartNew(len(files)); var wg sync.WaitGroup
BarStart ==
    /\ Ready("main")
    /\ main.pc = "barstart"
    /\ bar' = [total |-> Len(main.files), current |-> 0]
    /\ wg' = 0
    /\ main' = [main EXCEPT !.pc = "spawn", !.spawnIdx = 1]
    /\ UNCHANGED <<solver, params, wk, say, held, messageMutex, messageQueue,
                   lockOrder, flushed, fs, crashed>>

\* one iteration of the loop over files with a valid extension:
\* wg.Add(1), then the go statement
SpawnWorker ==
    /\ Ready("main")
    /\ main.pc = "spawn"
    /\ main.spawnIdx <= Len(main.files)
    /\ LET file == main.files[main.spawnIdx]
       IN  /\ isValidImageExtension(ToLower(Ext(file)))
           /\ wg' = wg + 1
           /\ wk' = [wk EXCEPT ![file] = [pc |-> "mkdir", dpi |-> 0, ops |-> {}]]
    /\ main' = [main EXCEPT !.spawnIdx = @ + 1]
    /\ UNCHANGED <<solver, params, say, held, messageMutex, messageQueue, lockOrder,
                   flushed, bar, fs, crashed>>

\* one iteration of the loop over a file whose extension is not valid
SkipInvalid ==
    /\ Ready("main")
    /\ main.pc = "spawn"
    /\ main.spawnIdx <= Len(main.files)
    /\ ~isValidImageExtension(ToLower(Ext(main.files[main.spawnIdx])))
    /\ main' = [main EXCEPT !.spawnIdx = @ + 1]
    /\ UNCHANGED <<solver, params, wk, say, held, messageMutex, messageQueue,
                   lockOrder, flushed, wg, bar, fs, crashed>>

\* a Wait that does not wait
WaitReturnsAlways(counter) == TRUE

\* wg.Wait() may return
WaitReturns(counter) == counter = 0

\* the loop is over: wg.Wait(), then bar.Finish()
Wait ==
    /\ Ready("main")
    /\ main.pc = "spawn"
    /\ main.spawnIdx > Len(main.files)
    /\ WaitReturns(wg)
    /\ main' = [main EXCEPT !.pc = "flush"]
    /\ UNCHANGED <<solver, params, wk, say, held, messageMutex, messageQueue,
                   lockOrder, flushed, wg, bar, fs, crashed>>

\* flushMessages, first half: messageMutex.Lock()
FlushLock ==
    /\ Ready("main")
    /\ main.pc = "flush"
    /\ CanLock(messageMutex)
    /\ messageMutex' = "main"
    /\ held' = [held EXCEPT !["main"] = TRUE]
    /\ main' = [main EXCEPT !.pc = "flushing"]
    /\ UNCHANGED <<solver, params, wk, say, messageQueue, lockOrder, flushed,
                   wg, bar, fs, crashed>>

\* flushMessages, second half: print every message, messageQueue = nil, Unlock
FlushPrint ==
    /\ ~crashed
    /\ main.pc = "flushing"
    /\ held["main"]
    /\ flushed' = messageQueue
    /\ messageQueue' = << >>
    /\ lockOrder' = << >>
    /\ messageMutex' = Free
    /\ held' = [held EXCEPT !["main"] = FALSE]
    /\ main' = [main EXCEPT !.pc = "nextpath"]
    /\ UNCHANGED <<solver, params, wk, say, wg, bar, fs, crashed>>

\* processPath returned: the next path of the loop, or the Action returns nil
NextPath ==
    /\ Ready("main")
    /\ main.pc = "nextpath"
    /\ IF main.argIdx < Len(params.args)
       THEN main' = [main EXCEPT !.pc = "stat", !.argIdx = @ + 1]
       ELSE main' = [main EXCEPT !.pc = "return"]
    /\ UNCHANGED <<solver, params, wk, say, held, messageMutex, messageQueue,
                   lockOrder, flushed, wg, bar, fs, crashed>>

\* app.Run returned (and its error, if any, was safePrinted): main returns
MainReturn ==
    /\ Ready("main")
    /\ main.pc = "return"
    /\ main' = [main EXCEPT !.pc = "exited", !.exitCode = 0]
    /\ UNCHANGED <<solver, params, wk, say, held, messageMutex, messageQueue,
                   lockOrder, flushed, wg, bar, fs, crashed>>

----------------------------------------------------------------------------
(* processFile, run by the goroutine of file f.  bar.Increment() is        *)
(* deferred by processFile and wg.Done() by the goroutine's function, so   *)
(* every return leads to "incr" and then "wgdone".                          *)

\* a processFile whose return after the skip message bypasses the increment
ExitViaNoIncrement(exit) == IF exit = "skip" THEN "wgdone" ELSE "incr"

\* a processFile without the return after the skip message
ExitViaFallThrough(exit) == IF exit = "skip" THEN "dpi" ELSE "incr"

\* where a return of processFile leads, whatever the exit: to the deferred
\* bar.Increment()
ExitVia(exit) == "incr"

\* an error that is dropped instead of being safePrinted
ReportNothing(f, text) == << >>

\* safePrint(fmt.Sprintf("Error ...: %v", err))
Report(f, text) == <<Msg(f, text)>>

\* os.MkdirAll(outputDir): nil when the directory exists or can be created
Mkdir(f) ==
    /\ Ready(f)
    /\ wk[f].pc = "mkdir"
    /\ IF fs.dirExists \/ fs.creatable
       THEN /\ fs' = [fs EXCEPT !.dirExists = TRUE]
            /\ wk' = [wk EXCEPT ![f].pc = "stat", ![f].ops = @ \cup {"mkdir"}]
            /\ UNCHANGED say
       ELSE /\ say' = [say EXCEPT ![f] = Report(f, "MkdirError")]
            /\ wk' = [wk EXCEPT ![f].pc = ExitVia("mkdirFailed"),
                          ![f].ops = @ \cup {"mkdirFailed"}]
            /\ UNCHANGED fs
    /\ UNCHANGED <<solver, params, main, held, messageMutex, messageQueue, lockOrder,
                   flushed, wg, bar, crashed>>

\* a check that never finds the output
OutputNeverExists(outputs, outputPath) == FALSE

\* os.Stat(outputPath) returned no error
OutputExists(outputs, outputPath) == outputPath \in outputs

\* the check for an existing output: skip message and return, or go on
StatOutput(f) ==
    /\ Ready(f)
    /\ wk[f].pc = "stat"
    /\ IF OutputExists(fs.outputs, OutputPath(f))
       THEN /\ say' = [say EXCEPT ![f] = <<Msg(f, "Skip")>>]
            /\ wk' = [wk EXCEPT ![f].pc = ExitVia("skip"), ![f].ops = @ \cup {"skip"}]
       ELSE /\ wk' = [wk EXCEPT ![f].pc = "dpi"]
            /\ UNCHANGED say
    /\ UNCHANGED <<solver, params, main, held, messageMutex, messageQueue, lockOrder,
                   flushed, wg, bar, fs, crashed>>

\* the dpi processFile settles on: <<dpi, message about the extraction or "">>
ResolvedDPI(filePath, overrideDPI) ==
    IF overrideDPI = 0
    THEN LET extracted == extractDPI(filePath)
         IN  IF extracted[2] THEN <<extracted[1], "ExtractedDPI">>
                             ELSE <<DefaultDPI, "FailedDPI">>
    ELSE <<overrideDPI, "">>

\* the DPI block and the "Processing %s" message
ResolveDPI(f) ==
    /\ Ready(f)
    /\ wk[f].pc = "dpi"
    /\ LET r == ResolvedDPI(f, params.overrideDPI)
       IN  /\ wk' = [wk EXCEPT ![f].pc = "resize", ![f].dpi = r[1],
                         ![f].ops = @ \cup (IF params.overrideDPI = 0
                                            THEN {"extractDPI"} ELSE {})]
           /\ say' = [say EXCEPT ![f] =
                         (IF r[2] = "" THEN << >> ELSE <<Msg(f, r[2])>>)
                         \o <<Msg(f, "Processing")>>]
    /\ UNCHANGED <<solver, params, main, held, messageMutex, messageQueue, lockOrder,
                   flushed, wg, bar, fs, crashed>>

\* resizeImage's guard
NeedsResize(newWidth, newHeight, originalWidth, originalHeight) ==
    newWidth < originalWidth \/ newHeight < originalHeight

\* resizeImage up to the call of saveImage: open, decode, solver, guard,
\* resize.  A dpi of 0 panics in the solver: the deferred bar.Increment and
\* wg.Done run and the program dies.
Resize(f) ==
    /\ Ready(f)
    /\ wk[f].pc = "resize"
    /\ LET c == Content(f)
       IN  IF ~c.opens
           THEN /\ say' = [say EXCEPT ![f] = Report(f, "ResizeError")]
                /\ wk' = [wk EXCEPT ![f].pc = ExitVia("openFailed"),
                              ![f].ops = @ \cup {"openFailed"}]
                /\ UNCHANGED <<bar, wg, crashed>>
           ELSE IF ~c.decodes
           THEN /\ say' = [say EXCEPT ![f] = Report(f, "ResizeError")]
                /\ wk' = [wk EXCEPT ![f].pc = ExitVia("decodeFailed"),
                              ![f].ops = @ \cup {"open", "decodeFailed"}]
                /\ UNCHANGED <<bar, wg, crashed>>
           ELSE IF wk[f].dpi = 0
           THEN /\ crashed' = TRUE
                /\ wk' = [wk EXCEPT ![f].pc = "panicked",
                              ![f].ops = @ \cup {"open", "decode", "panic", "increment", "done"}]
                /\ bar' = [bar EXCEPT !.current = @ + 1]
                /\ wg' = wg - 1
                /\ UNCHANGED say
           ELSE LET new == calculateMaxResolution(c.width, c.height,
                               getPixelFormat(Ext(f)), 4, params.memoryLimit, wk[f].dpi)
                IN  /\ IF NeedsResize(new[1], new[2], c.width, c.height)
                       THEN /\ say' = [say EXCEPT ![f] = <<Msg(f, "Resized")>>]
                            /\ wk' = [wk EXCEPT ![f].pc = "save",
                                          ![f].ops = @ \cup {"open", "decode", "solve", "resize"}]
                       ELSE /\ wk' = [wk EXCEPT ![f].pc = ExitVia("notSmaller"),
                                          ![f].ops = @ \cup {"open", "decode", "solve"}]
                            /\ UNCHANGED say
                    /\ UNCHANGED <<bar, wg, crashed>>
    /\ UNCHANGED <<solver, params, main, held, messageMutex, messageQueue, lockOrder,
                   flushed, fs>>

\* resizeImage reaches saveImage after a resize (the dryRun parameter is not read)
ReachesSave(dryRun) == TRUE

\* return saveImage(...): os.Create fails, or it creates the file and the
\* encoder then fails or succeeds
Save(f) ==
    /\ Ready(f)
    /\ wk[f].pc = "save"
    /\ ReachesSave(params.dryRun)
    /\ \E outcome \in {"createFailed", "encodeFailed", "saved"} :
        /\ fs' = IF outcome = "createFailed" THEN fs
                 ELSE [fs EXCEPT !.outputs = @ \cup {OutputPath(f)}]
        /\ say' = IF outcome = "saved" THEN say
                  ELSE [say EXCEPT ![f] = Report(f, "ResizeError")]
        /\ wk' = [wk EXCEPT ![f].pc = ExitVia(outcome),
                      ![f].ops = @ \cup (IF outcome = "createFailed" THEN {"createFailed"}
                                         ELSE {"create", outcome})]
    /\ UNCHANGED <<solver, params, main, held, messageMutex, messageQueue, lockOrder,
                   flushed, wg, bar, crashed>>

\* the deferred bar.Increment()
Increment(f) ==
    /\ Ready(f)
    /\ wk[f].pc = "incr"
    /\ bar' = [bar EXCEPT !.current = @ + 1]
    /\ wk' = [wk EXCEPT ![f].pc = "wgdone", ![f].ops = @ \cup {"increment"}]
    /\ UNCHANGED <<solver, params, main, say, held, messageMutex, messageQueue,
                   lockOrder, flushed, wg, fs, crashed>>

\* the deferred wg.Done(); the goroutine ends
Done(f) ==
    /\ Ready(f)
    /\ wk[f].pc = "wgdone"
    /\ wg' = wg - 1
    /\ wk' = [wk EXCEPT ![f].pc = "finished", ![f].ops = @ \cup {"done"}]
    /\ UNCHANGED <<solver, params, main, say, held, messageMutex, messageQueue,
                   lockOrder, flushed, bar, fs, crashed>>

Next ==
    \/ MainStart
    \/ Scanln
    \/ MainAction
    \/ StatPath
    \/ BarStart
    \/ SpawnWorker
    \/ SkipInvalid
    \/ Wait
    \/ FlushLock
    \/ FlushPrint
    \/ NextPath
    \/ MainReturn
    \/ \E p \in Procs : SafePrintLock(p)
    \/ \E p \in Procs : SafePrintAppend(p)
    \/ \E f \in Files : Mkdir(f)
    \/ \E f \in Files : StatOutput(f)
    \/ \E f \in Files : ResolveDPI(f)
    \/ \E f \in Files : Resize(f)
    \/ \E f \in Files : Save(f)
    \/ \E f \in Files : Increment(f)
    \/ \E f \in Files : Done(f)

Spec == Init /\ [][Next]_vars

----------------------------------------------------------------------------
\* C1: every (width, height) returned for dpi >= 1 satisfies
\* ceil(width*bytesPerPixel / alignment) * alignment * height <= memoryLimit,
\* for the values after the DPI snap and the recomputed height.
C1_BudgetRespected ==
    (solver.pc \in {"returned", "guarded"} /\ solver.in.dpi >= 1) =>
        TotalMemory(solver.newWidth, solver.newHeight,
                    getBytesPerPixel(solver.in.pixelFormat), solver.in.alignment)
            <= solver.in.memoryLimit

\* a call that was rejected at least once, was snapped to a smaller width and returned
C1_Witness ==
    /\ solver.pc = "returned"
    /\ solver.iterations >= 1
    /\ solver.in.dpi >= 2
    /\ solver.newWidth > 0
    /\ solver.newWidth < WidthOf(solver.in.originalWidth, solver.in.originalHeight, solver.height)

----------------------------------------------------------------------------
(* Vocabulary of the properties of a run.                                  *)

\* goroutines of the current processPath call that have not ended
Running == { f \in Files : wk[f].pc \notin {"none", "finished", "panicked"} }

\* processFile has returned in the goroutine of f
Returned(f) == wk[f].pc \in {"incr", "wgdone", "finished"}

\* main is past wg.Wait() of the current processPath call
Joined == main.pc \in {"flush", "flushing", "nextpath"} /\ main.files # << >>

\* the messages of goroutine p: printed, queued, or yet to be passed to safePrint
MsgsOf(p) ==
    LET ByP(m) == m.by = p
    IN  SelectSeq(flushed \o messageQueue, ByP) \o say[p]

IsPrefix(a, b) == Len(a) <= Len(b) /\ SubSeq(b, 1, Len(a)) = a

\* the files of the current call with a valid extension
Matching ==
    { i \in 1..Len(main.files) : isValidImageExtension(ToLower(Ext(main.files[i]))) }

FailureTags == {"mkdirFailed", "openFailed", "decodeFailed", "createFailed", "encodeFailed"}
Failed(f) == wk[f].ops \cap FailureTags # {}

\* the current processPath call runs on the same root as the previous one
SecondRun ==
    /\ main.argIdx >= 2
    /\ main.pc \in {"barstart", "spawn", "flush", "flushing", "nextpath"}
    /\ params.args[main.argIdx] = params.args[main.argIdx - 1]

----------------------------------------------------------------------------
\* C2: processPath does not get past wg.Wait() - it neither calls
\* flushMessages nor returns - while a goroutine it spawned is still running,
\* and the WaitGroup counter always equals the number of goroutines that
\* were added and have not called Done (every Add precedes its Done).
C2_JoinBarrier ==
    /\ wg = Cardinality(Running)
    /\ main.pc # "spawn" => Running = {}

\* the flush after a batch of two goroutines that both ended
C2_Witness ==
    /\ main.pc = "flushing"
    /\ Cardinality({ f \in Files : wk[f].pc = "finished" }) >= 2

----------------------------------------------------------------------------
\* C3: every goroutine increments the progress counter exactly once on every
\* exit path: the counter equals the number of goroutines that have
\* incremented, never decreases within a call, never exceeds the bar's total,
\* and after the join equals the number of files with a valid extension.
C3_CounterState ==
    /\ bar.current = Cardinality({ f \in Files : "increment" \in wk[f].ops })
    /\ bar.current <= bar.total
    /\ \A f \in Files : wk[f].pc \in {"wgdone", "finished"} => "increment" \in wk[f].ops
    /\ \A f \in Files : "increment" \in wk[f].ops => wk[f].pc \in {"wgdone", "finished", "panicked"}
    /\ Joined => bar.current = Cardinality(Matching)

C3_ProgressExactlyOnce ==
    /\ []C3_CounterState
    /\ [][main.pc # "stat" => bar'.current >= bar.current]_vars

\* a joined batch of two goroutines of which one failed and one did not
C3_Witness ==
    /\ Joined
    /\ bar.current = 2
    /\ \E f \in Files : Failed(f)
    /\ \E f \in Files : wk[f].pc = "finished" /\ ~Failed(f)

----------------------------------------------------------------------------
\* C4: in the log printed by flushMessages the messages of one file's
\* processFile are contiguous: no other goroutine's message lies between two
\* of them.
Contiguous(log, p) ==
    \A i, j \in 1..Len(log) :
        (i < j /\ log[i].by = p /\ log[j].by = p) =>
            \A k \in i..j : log[k].by = p

C4_ContiguousPerWorker ==
    main.pc = "nextpath" => \A f \in Files : Contiguous(flushed, f)

----------------------------------------------------------------------------
\* C5: at most one goroutine is inside the messageMutex critical section; the
\* queue holds the messages of the safePrint calls in the order they took the
\* lock, none lost and none twice (all of them but the one being appended);
\* flushMessages prints exactly these, in that order, and leaves the queue empty.
C5_QueueState ==
    /\ Cardinality({ p \in Procs : held[p] }) <= 1
    /\ IsPrefix(messageQueue, lockOrder)
    /\ Len(lockOrder) - Len(messageQueue)
         = Cardinality({ p \in Procs : held[p] /\ say[p] # << >> })

C5_SinkKeepsEveryMessage ==
    /\ []C5_QueueState
    /\ [][(main.pc = "flushing" /\ main'.pc = "nextpath") =>
             (flushed' = lockOrder /\ messageQueue' = << >>)]_vars

\* a flush that printed the messages of two different goroutines
C5_Witness ==
    /\ main.pc = "nextpath"
    /\ \E i, j \in 1..Len(flushed) :
          /\ flushed[i].by # flushed[j].by
          /\ flushed[i].by # "main"
          /\ flushed[j].by # "main"

----------------------------------------------------------------------------
\* C6: with the dry-run flag set no goroutine reaches saveImage / os.Create
\* and no output file appears.
C6_DryRunWritesNothing ==
    params.dryRun =>
        /\ \A f \in Files : wk[f].ops \cap {"create", "createFailed"} = {}
        /\ fs.outputs = {}

----------------------------------------------------------------------------
\* C7 (as stated): on a second run over the same root every unit reports the
\* skip and no output file is created or rewritten.
C7_SecondRunAllSkip ==
    SecondRun =>
        /\ \A f \in Files : Returned(f) => "skip" \in wk[f].ops
        /\ fs.outputs = main.before

\* C7 (amended): on a second run over the same root every unit whose output
\* file is present when the run starts reports the skip and neither creates
\* nor rewrites it.
C7_SecondRunSkipsWritten ==
    SecondRun =>
        \A f \in Files :
            (Returned(f) /\ OutputPath(f) \in main.before) =>
                /\ "skip" \in wk[f].ops
                /\ wk[f].ops \cap {"create", "createFailed"} = {}

\* a second run in which one unit skipped its output of the first run and
\* another, which had left no output, was processed again
C7_Witness ==
    /\ SecondRun
    /\ \E f \in Files :
          wk[f].pc = "finished" /\ "skip" \in wk[f].ops /\ OutputPath(f) \in main.before
    /\ \E f \in Files : wk[f].pc = "finished" /\ "skip" \notin wk[f].ops

----------------------------------------------------------------------------
\* C8: a goroutine that finds its output path existing appends the skip
\* message and nothing else, increments progress and returns: it resolves no
\* DPI, does not open or decode the input, does not run the solver and does
\* not create the output file.
C8_SkipDoesNothingElse ==
    \A f \in Files :
        "skip" \in wk[f].ops =>
            /\ wk[f].ops \subseteq {"mkdir", "skip", "increment", "done"}
            /\ wk[f].dpi = 0
            /\ MsgsOf(f) = <<Msg(f, "Skip")>>
            /\ Returned(f)
            /\ wk[f].pc = "finished" => "increment" \in wk[f].ops

\* a goroutine that skipped and ended
C8_Witness ==
    \E f \in Files : wk[f].pc = "finished" /\ "skip" \in wk[f].ops

----------------------------------------------------------------------------
\* C9: when the original's aligned uncompressed size already fits the
\* memory limit (alignment 4, the formats of getPixelFormat, dpi >= 1),
\* resizeImage's guard is false: no resize and no output.
C9_FittingOriginalIsKept ==
    ( /\ solver.pc = "guarded"
      /\ solver.in.dpi >= 1
      /\ solver.in.alignment = 4
      /\ solver.in.pixelFormat \in {"Format24bppRgb", "Format32bppArgb"}
      /\ TotalMemory(solver.in.originalWidth, solver.in.originalHeight, 4, 4)
            <= solver.in.memoryLimit )
    => ~solver.resized

----------------------------------------------------------------------------
\* C10: a goroutine that hit a per-file failure (output directory, open,
\* decode, create, encode) has exactly one error message, has returned from
\* processFile towards the increment and Done, and did not panic; the step
\* that fails leaves the program alive and every other goroutine, the mutex
\* and the WaitGroup as they were; once every goroutine has ended the
\* WaitGroup counter is 0, so the join completes.
ErrorsOf(f) ==
    LET IsError(m) == m.text \in {"MkdirError", "ResizeError"}
    IN  SelectSeq(MsgsOf(f), IsError)

C10_FailureState ==
    /\ \A f \in Files :
          Failed(f) =>
              /\ Len(ErrorsOf(f)) = 1
              /\ Returned(f)
              /\ "panic" \notin wk[f].ops
              /\ wk[f].pc = "finished" => {"increment", "done"} \subseteq wk[f].ops
    /\ (\A f \in Files : wk[f].pc \in {"none", "finished"}) => wg = 0

C10_FailureStep ==
    \A f \in Files :
        (~Failed(f) /\ Failed(f)') =>
            /\ crashed' = crashed
            /\ wg' = wg
            /\ messageMutex' = messageMutex
            /\ \A g \in Files \ {f} : wk'[g] = wk[g]

C10_FailuresAreContained ==
    /\ []C10_FailureState
    /\ [][C10_FailureStep]_vars

\* a batch in which one goroutine failed to decode and its sibling ended
\* without failure
C10_Witness ==
    /\ Joined
    /\ \E f \in Files : wk[f].pc = "finished" /\ "decodeFailed" \in wk[f].ops
    /\ \E f \in Files : wk[f].pc = "finished" /\ ~Failed(f)

----------------------------------------------------------------------------
\* C11: a run with zero positional arguments ends as a fatal usage error:
\* once it has exited no path was processed and no file was touched, a
\* message was printed to the user, and the exit code is not zero.
C11_NoArgsIsFatalUsageError ==
    (Len(params.args) = 0 /\ main.pc = "exited") =>
        /\ main.argIdx = 0
        /\ \A f \in Files : wk[f] = NotSpawned
        /\ fs.outputs = {} /\ ~fs.dirExists
        /\ flushed # << >>
        /\ main.exitCode # 0

----------------------------------------------------------------------------
\* C12: with the DPI override unset (0) the goroutine uses the metadata value
\* when extraction succeeds and 72 on any extraction failure, a failure being
\* missing or corrupt metadata or a horizontal resolution that differs from
\* the vertical one; a nonzero override is used as it is and extractDPI is
\* not called; no extraction outcome makes the goroutine panic.

\* processFile of f is past its DPI block
DPIResolved(f) ==
    wk[f].pc = "resize" \/ wk[f].ops \cap {"open", "openFailed"} # {}

\* the file's metadata gives a resolution: both tags readable and equal
MetadataAgrees(f) ==
    LET c == Content(f)
    IN  c.opens /\ c.hasExif /\ c.xNum * c.yDen = c.yNum * c.xDen

C12_DPIFallback ==
    \A f \in Files :
        DPIResolved(f) =>
            /\ params.overrideDPI = 0 =>
                   /\ "extractDPI" \in wk[f].ops
                   /\ wk[f].dpi = IF MetadataAgrees(f)
                                  THEN Content(f).xNum \div Content(f).xDen
                                  ELSE 72
            /\ params.overrideDPI # 0 =>
                   /\ wk[f].dpi = params.overrideDPI
                   /\ "extractDPI" \notin wk[f].ops
            /\ "panic" \notin wk[f].ops

----------------------------------------------------------------------------
\* C13: the candidate the loop accepts is the largest one that fits: no
\* height above the accepted one, with its width floor(aspectRatio * height),
\* has an aligned size within memoryLimit.  (A height above
\* memoryLimit + originalHeight has width >= 1 and cannot fit.)
C13_AcceptedIsLargest ==
    solver.pc \in {"returned", "guarded", "panic"} =>
        \A h \in (solver.height + 1)..(solver.in.memoryLimit + solver.in.originalHeight) :
            ~Fits(solver.in.originalWidth, solver.in.originalHeight,
                  getBytesPerPixel(solver.in.pixelFormat), solver.in.alignment,
                  solver.in.memoryLimit, h)

----------------------------------------------------------------------------
\* C14: called with dpi = 0 the solver returns normally - it does not fault -
\* and returns the accepted candidate as it is, not snapped: the accepted
\* width and height, whose aligned size is within memoryLimit.
C14_ZeroDpiReturnsCandidate ==
    solver.in.dpi = 0 =>
        /\ solver.pc # "panic"
        /\ solver.pc \in {"returned", "guarded"} =>
               /\ solver.newWidth = SolverWidth
               /\ solver.newHeight = solver.height
               /\ TotalMemory(solver.newWidth, solver.newHeight,
                              getBytesPerPixel(solver.in.pixelFormat), solver.in.alignment)
                      <= solver.in.memoryLimit

----------------------------------------------------------------------------
\* C15: the returned pair keeps the original aspect ratio up to one step of
\* integer rounding.  With DPI quantization (dpi >= 1) the height is the
\* floor of width / ratio: 0 <= width*originalHeight - height*originalWidth
\* < originalWidth.  Without it (dpi = 0) the call returns and the width is
\* the floor of ratio * height: 0 <= height*originalWidth -
\* width*originalHeight < originalHeight.
C15_Quantized ==
    (solver.in.dpi >= 1 /\ solver.pc \in {"returned", "guarded"}) =>
        LET d == solver.newWidth * solver.in.originalHeight
                   - solver.newHeight * solver.in.originalWidth
        IN  0 <= d /\ d < solver.in.originalWidth

C15_Unquantized ==
    solver.in.dpi = 0 =>
        /\ solver.pc # "panic"
        /\ solver.pc \in {"returned", "guarded"} =>
               LET d == solver.newHeight * solver.in.originalWidth
                          - solver.newWidth * solver.in.originalHeight
               IN  0 <= d /\ d < solver.in.originalHeight

C15_AspectRatioKept == C15_Quantized /\ C15_Unquantized

----------------------------------------------------------------------------
\* C16: the file list of a root path holds exactly the candidate files, each
\* once: for a directory without the recursive flag the files with a
\* supported extension directly in it, with the flag those of the whole
\* tree; for a single file the path itself when its extension is supported
\* (whatever its case), otherwise nothing, and a rejection is logged.

\* the directory a file lies in ("" for a path without a directory)
DirOf(f) ==
    CASE f \in {"d/a.jpg", "d/n.txt"} -> "d"
      [] f = "d/s/a.jpg" -> "d/s"
      [] f \in {"e/b.png", "e/c.PNG"} -> "e"
      [] OTHER -> ""

\* the directories of the tree rooted at dir
TreeOf(dir) == IF dir = "d" THEN {"d", "d/s"} ELSE {dir}

Supported(f) == ToLower(Ext(f)) \in {".jpg", ".jpeg", ".png"}

Candidates(root, recursive) ==
    { f \in Files : /\ Supported(f)
                    /\ DirOf(f) \in (IF recursive THEN TreeOf(root) ELSE {root}) }

\* main has logged something other than its messages of lines 185, 186, 259,
\* 266 and 279
RejectionLogged ==
    \E i \in 1..Len(MsgsOf("main")) :
        MsgsOf("main")[i].text \notin
            {"CannotDoubleClick", "PressEnter", "Error", "AccessError", "ProcessingFiles"}

C16_FileListIsCandidates ==
    main.pc \in {"barstart", "spawn", "flush", "flushing"} =>
        LET root == params.args[main.argIdx]
            files == main.files
        IN  /\ \A i, j \in 1..Len(files) : files[i] = files[j] => i = j
            /\ IF IsDir(root)
               THEN { files[i] : i \in 1..Len(files) } = Candidates(root, params.recursive)
               ELSE IF Supported(root)
               THEN files = <<root>>
               ELSE files = << >> /\ RejectionLogged

\* C16, directories and supported single files only
C16_DirectoryPart ==
    (main.pc \in {"barstart", "spawn", "flush", "flushing"}
       /\ (IsDir(params.args[main.argIdx]) \/ Supported(params.args[main.argIdx])))
    => C16_FileListIsCandidates

----------------------------------------------------------------------------
\* C17: every message appended to the message queue is printed before the
\* program exits: when the process has ended, by a return of main, by
\* os.Exit or by a panic, the queue holds no message that was never printed.
\* This covers the per-file messages, the message for an inaccessible root
\* path and the message for the error returned by the Action.
C17_PrintedBeforeExit ==
    (main.pc = "exited" \/ crashed) => messageQueue = << >>

\* C17 for the runs that end by a return of main after at least one path
C17_ReturnAfterPaths ==
    (main.pc = "exited" /\ Len(params.args) > 0) => messageQueue = << >>

----------------------------------------------------------------------------
\* C18: the loop of calculateMaxResolution terminates: a rejected candidate
\* is followed by one whose integer height is strictly smaller and whose
\* stride is not larger, the height never goes below 0, and a candidate of
\* height 0 is accepted; so the number of rejections plus the current height
\* never exceeds the first height.
C18_LoopState ==
    /\ solver.height >= 0
    /\ (solver.pc = "loop" /\ solver.height = 0) => SolverFits
    /\ solver.iterations + solver.height
         <= InitialHeight(solver.in.originalWidth, solver.in.originalHeight,
                          getBytesPerPixel(solver.in.pixelFormat), solver.in.memoryLimit)

C18_RejectStep ==
    (solver.pc = "loop" /\ solver'.pc = "loop" /\ solver'.iterations > solver.iterations) =>
        /\ solver'.height < solver.height
        /\ StrideOf(WidthOf(solver.in.originalWidth, solver.in.originalHeight, solver'.height),
                    getBytesPerPixel(solver.in.pixelFormat), solver.in.alignment)
             <= SolverStride

C18_LoopTerminates ==
    /\ []C18_LoopState
    /\ [][C18_RejectStep]_vars

\* a call whose first candidate was rejected, whose next candidate had
\* height 0, and which accepted it
C18_Witness ==
    /\ solver.pc \in {"returned", "panic"}
    /\ solver.iterations >= 1
    /\ solver.height = 0

----------------------------------------------------------------------------
\* C19: within one batch no two goroutines that run at the same time have
\* the same output path, so no goroutine is between its os.Stat of the
\* output path and its os.Create of it while another one checks or writes
\* the same file; also with --recursive.

\* goroutine f found its output path absent and has not yet created the file
BetweenCheckAndWrite(f) == wk[f].pc \in {"dpi", "resize", "save"}

C19_OutputPathsDistinct ==
    \A f, g \in Running : f # g => OutputPath(f) # OutputPath(g)

\* C19, the interleaving: two goroutines are between check and write of the
\* same output file
C19_NoInterleavedCheckThenWrite ==
    \A f, g \in Files :
        (f # g /\ BetweenCheckAndWrite(f) /\ BetweenCheckAndWrite(g)) =>
            OutputPath(f) # OutputPath(g)

\* C19, the race itself: two goroutines of one batch have both created the
\* same output file
C19_NoDoubleWrite ==
    \A f, g \in Files :
        (f # g /\ "create" \in wk[f].ops /\ "create" \in wk[g].ops) =>
            OutputPath(f) # OutputPath(g)

----------------------------------------------------------------------------
\* C20: the dpi a goroutine passes on to resizeImage and calculateMaxResolution
\* is never 0, whatever the override and whatever extractDPI returns, so
\* width % dpi never divides by zero and no goroutine panics.
C20_DpiNeverZero ==
    /\ \A f \in Files : DPIResolved(f) => wk[f].dpi # 0
    /\ \A f \in Files : "panic" \notin wk[f].ops
    /\ ~crashed

----------------------------------------------------------------------------
\* C21: whenever resizeImage's guard lets the resize step run (dpi >= 1), the
\* target width and the target height are both at least 1: the DPI snap and
\* the recomputed height never give a zero-sized target that passes the guard.
C21_TargetAtLeastOne ==
    (solver.pc = "guarded" /\ solver.resized /\ solver.in.dpi >= 1) =>
        solver.newWidth >= 1 /\ solver.newHeight >= 1

\* C21 for a dpi of 1, where the snap leaves the width as it is
C21_TargetAtLeastOneUnsnapped ==
    (solver.pc = "guarded" /\ solver.resized /\ solver.in.dpi = 1) =>
        solver.newWidth >= 1 /\ solver.newHeight >= 1

====
